---- MODULE Spec2Model ----
(***************************************************************************)
(* port-killer: the ProcessKiller two-stage termination protocol           *)
(* (backend/core/src/killer.rs) and the interactive session aggregate with *)
(* its driving loop (backend/cli/src/tui/app.rs, backend/cli/src/tui/      *)
(* mod.rs).                                                                *)
(***************************************************************************)
EXTENDS Integers, Sequences, FiniteSets, TLC

VARIABLES
    platform,        \* which #[cfg] variant of ProcessKiller::kill was built
    world,           \* the pids that can ever be running on this host
    alive,           \* the operating system's process table (set of live pids)
    pc,              \* position of the single control thread
    caller,          \* who entered kill_gracefully: "api" or "kill_selected"
    session,         \* "none" | "running" | "quit" | "failed" (run_app's return)
    kg_pid,          \* kill_gracefully: its pid argument
    kg_stage1,       \* kill_gracefully: graceful_result (or "none" before stage 1)
    kg_result,       \* kill_gracefully: the value it returns
    kg_log,          \* kill_gracefully: what the call did so far, in order
    kg_existed,      \* history: the process existed when the call started
    kg_killed,       \* history: the process was terminated by this call
    kg_present,      \* history: the pid existed at some point during the call
    lastKill,        \* the latest direct kill(pid, force) call and its result
    ports,           \* App.ports
    favorites,       \* App.favorites
    watched,         \* App.watched
    selected,        \* App.selected
    search_query,    \* App.search_query
    searching,       \* App.searching
    status_message,  \* App.status_message
    last_refresh,    \* App.last_refresh
    now,             \* the monotonic clock read by Instant::now()
    cfgFav,          \* config store: persisted favorites
    cfgWatched,      \* config store: persisted watched ports
    ks,              \* kill_selected: the pid, port and name it resolved
    op,              \* history: the latest completed session operation
    filter,          \* the PortFilter value in hand
    f_ports,         \* filter_ports: its `ports` argument
    f_favorites,     \* matches / filter_ports: the `favorites` argument
    f_watched,       \* matches / filter_ports: the `watched` argument
    fcall,           \* history: the latest PortFilter operation and its output
    key,             \* run_app: the key event read in the current iteration
    wstore,          \* config store: the WatchedPort records it holds
    cli              \* the non-interactive command in progress

kgVars == <<kg_pid, kg_stage1, kg_result, kg_log, kg_existed, kg_killed,
            kg_present>>
appVars == <<ports, favorites, watched, selected, search_query, searching,
             status_message, last_refresh>>
storeVars == <<cfgFav, cfgWatched>>
filterVars == <<filter, f_ports, f_favorites, f_watched, fcall>>
cliVars == <<wstore, cli>>
hostVars == <<platform, world, filterVars, cliVars>>
envVars == <<hostVars, key>>
progVars == <<platform, world, alive, pc, caller, session, kg_pid, kg_stage1,
              kg_result, kg_log, kg_existed, kg_killed, kg_present, lastKill,
              ports, favorites, watched, selected, search_query, searching,
              status_message, last_refresh, now, cfgFav, cfgWatched, ks, op>>
vars == <<progVars, filterVars, key, cliVars>>

-----------------------------------------------------------------------------
(* Bounds and input domains *)

MaxQuery == 2

\* The clock is observed up to MaxTime milliseconds, in steps of TickDeltas.
MaxTime == 8000

TickDeltas == {1000, 1500}

Pids == {1, 2, 3}

Platforms == {"unix", "windows"}

\* Pids the caller has the right to signal.
Permitted(pid) == pid # 2

-----------------------------------------------------------------------------
(* Result<bool> of the killer *)

Ok(b) == [tag |-> "Ok", val |-> b, kind |-> "", pid |-> 0, reason |-> ""]

Err(kind, pid, reason) ==
    [tag |-> "Err", val |-> FALSE, kind |-> kind, pid |-> pid, reason |-> reason]

NoResult == [tag |-> "None", val |-> FALSE, kind |-> "", pid |-> 0, reason |-> ""]

IsOk(r) == r.tag = "Ok"

IsErr(r) == r.tag = "Err"

\* The text of a status message: what was formatted, and from which values.
Msg(kind, name, num, err) == [kind |-> kind, name |-> name, num |-> num, err |-> err]

NoErr == [kind |-> "", pid |-> 0, reason |-> ""]

\* Display of an Error.
ErrOf(r) == [kind |-> r.kind, pid |-> r.pid, reason |-> r.reason]

\* status_message: None
NoStatus == [msg |-> Msg("", <<>>, 0, NoErr), at |-> 0, set |-> FALSE]

NoOp == [name |-> "none", pre_sel |-> 0, refreshed |-> FALSE, scanned |-> FALSE,
         failed |-> FALSE, call |-> <<>>]

NoKs == [pid |-> 0, port |-> 0, name |-> <<>>]

-----------------------------------------------------------------------------
(* PortFilter values *)

\* ProcessType::ALL, the known process types.
ProcessTypeALL == {"WebServer", "Development", "Other"}

all_process_types_but_other == ProcessTypeALL \ {"Other"}

\* fn all_process_types: ProcessType::ALL collected into a set.
all_process_types == ProcessTypeALL

\* Option<u16>: None is <<>>, Some(v) is <<v>>.
None == <<>>

Some(v) == <<v>>

\* impl Default for PortFilter
default_filter ==
    [search_text |-> <<>>, min_port |-> None, max_port |-> None,
     process_types |-> all_process_types,
     show_only_favorites |-> FALSE, show_only_watched |-> FALSE]

\* PortFilter::new
new_filter == default_filter

NoCall == [name |-> "none", was_active |-> FALSE, out |-> <<>>]

\* No non-interactive command is running.
NoCli == [cmd |-> "none", at |-> "idle", port |-> 0, on_start |-> TRUE,
          on_stop |-> TRUE, force |-> FALSE, scanned |-> FALSE, table |-> <<>>,
          before |-> {}, exit |-> ""]

\* No PortFilter is in use, no command is running, no key was read.
FilterIdle ==
    /\ key = ""
    /\ wstore = {}
    /\ cli = NoCli
    /\ filter = new_filter
    /\ f_ports = <<>>
    /\ f_favorites = {}
    /\ f_watched = <<>>
    /\ fcall = NoCall

-----------------------------------------------------------------------------
(* The operating system as the killer sees it *)

\* errno values nix::sys::signal::kill can report for a pid.
UnixOutcomes(pid) ==
    IF pid \notin alive THEN {"ESRCH"}
    ELSE IF ~Permitted(pid) THEN {"EPERM"}
    ELSE {"OK", "EINVAL"}

\* What running `taskkill /F /PID pid` can produce: the command could not be
\* spawned, it exited successfully, or it failed with a message on stderr.
StderrNotFound == "ERROR: The process not found."
StderrNoSuch == "No such process"
StderrDenied == "ERROR: Access is denied."

WinOutcomes(pid) ==
    {"SPAWN_FAILED"} \cup
    (IF pid \notin alive THEN {StderrNotFound, StderrNoSuch}
     ELSE IF ~Permitted(pid) THEN {StderrDenied}
     ELSE {"SUCCESS"})

Outcomes(pid) == IF platform = "unix" THEN UnixOutcomes(pid) ELSE WinOutcomes(pid)

\* stderr.contains("not found") || stderr.contains("No such process")
StderrSaysAbsent(stderr) == stderr \in {StderrNotFound, StderrNoSuch}

-----------------------------------------------------------------------------
(* ProcessKiller::kill *)

unix_signal_swapped(force) == IF force THEN "SIGTERM" ELSE "SIGKILL"

\* #[cfg(unix)]: the signal chosen from `force`.
unix_signal(force) == IF force THEN "SIGKILL" ELSE "SIGTERM"

kill_unix_esrch_fails(pid, force, outcome) ==
    CASE outcome = "OK" -> Ok(TRUE)
      [] outcome = "EPERM" -> Err("PermissionDenied", pid, "")
      [] OTHER -> Err("KillFailed", pid, outcome)

\* #[cfg(unix)]: the match on the result of nix::sys::signal::kill.
kill_unix(pid, force, outcome) ==
    CASE outcome = "OK" -> Ok(TRUE)
      [] outcome = "ESRCH" -> Ok(FALSE)
      [] outcome = "EPERM" -> Err("PermissionDenied", pid, "")
      [] OTHER -> Err("KillFailed", pid, outcome)

\* #[cfg(windows)]: the primitive issued; `_force` is not consulted.
windows_signal(force) == "TASKKILL_F"

\* #[cfg(windows)]: classification of taskkill's exit status and stderr.
kill_windows(pid, force, outcome) ==
    CASE outcome = "SPAWN_FAILED" -> Err("CommandFailed", 0, "Failed to run taskkill")
      [] outcome = "SUCCESS" -> Ok(TRUE)
      [] StderrSaysAbsent(outcome) -> Ok(FALSE)
      [] OTHER -> Err("KillFailed", pid, outcome)

kill_signal(force) ==
    IF platform = "unix" THEN unix_signal(force) ELSE windows_signal(force)

kill(pid, force, outcome) ==
    IF platform = "unix" THEN kill_unix(pid, force, outcome)
    ELSE kill_windows(pid, force, outcome)

\* Whether a primitive was delivered to a process, and whether it can be deferred.
Delivered(outcome) == outcome \in {"OK", "SUCCESS"}

Unconditional(prim) == prim \in {"SIGKILL", "TASKKILL_F"}

\* The process table after the primitive `prim` met outcome `outcome`.
AliveAfter(pid, prim, outcome) ==
    IF Delivered(outcome) /\ Unconditional(prim) THEN alive \ {pid} ELSE alive

KillEvent(pid, force, outcome) ==
    [ev |-> "kill", pid |-> pid, force |-> force, prim |-> kill_signal(force),
     outcome |-> outcome, result |-> kill(pid, force, outcome)]

SleepEvent(pid) ==
    [ev |-> "sleep", pid |-> pid, force |-> FALSE, prim |-> "",
     outcome |-> "", result |-> NoResult]

NoKill == [ev |-> "none", pid |-> 0, force |-> FALSE, prim |-> "",
           outcome |-> "", result |-> NoResult]


-----------------------------------------------------------------------------
(* ProcessKiller::kill_gracefully, one action per suspension point *)

\* Entry: nothing has been sent yet.
kill_gracefully_enter(pid, who) ==
    /\ kg_pid' = pid
    /\ kg_stage1' = "none"
    /\ kg_result' = NoResult
    /\ kg_log' = <<>>
    /\ kg_existed' = (pid \in alive')
    /\ kg_present' = (pid \in alive')
    /\ kg_killed' = FALSE
    /\ caller' = who
    /\ pc' = "kg_stage1"

after_stage1_skip(r) ==
    IF IsErr(r) THEN "kg_ret"
    ELSE IF r.val THEN "kg_sleep"
    ELSE "kg_ret"

\* `let graceful_result = self.kill(pid, false).await?; if graceful_result {sleep}`:
\* where control goes once stage 1 has returned r.
after_stage1(r) ==
    IF IsErr(r) THEN "kg_ret"
    ELSE IF r.val THEN "kg_sleep"
    ELSE "kg_stage2"

\* `self.kill(pid, true).await` is the tail expression: its value is returned.
stage2_return(graceful_result, r) == r

\* Stage 1: self.kill(pid, false).await?
KgStage1 ==
    /\ pc = "kg_stage1"
    /\ \E o \in Outcomes(kg_pid) :
         LET e == KillEvent(kg_pid, FALSE, o)
             a == AliveAfter(kg_pid, e.prim, o)
         IN  /\ kg_log' = Append(kg_log, e)
             /\ alive' = a
             /\ kg_killed' = (kg_killed \/ (kg_pid \in alive /\ kg_pid \notin a))
             /\ kg_stage1' = IF IsErr(e.result) THEN "error"
                             ELSE IF e.result.val THEN "true" ELSE "false"
             /\ kg_result' = IF IsErr(e.result) THEN e.result ELSE kg_result
             /\ pc' = after_stage1(e.result)
    /\ UNCHANGED <<envVars, caller, session, kg_pid, kg_existed, kg_present,
                   lastKill, appVars, now, storeVars, ks, op>>

KgSleepSkipped ==
    /\ pc = "kg_sleep"
    /\ pc' = "kg_stage2"
    /\ UNCHANGED <<envVars, alive, caller, session, kgVars, lastKill, appVars, now,
                   storeVars, ks, op>>

\* sleep(self.grace_period).await has elapsed.
KgSleep ==
    /\ pc = "kg_sleep"
    /\ kg_log' = Append(kg_log, SleepEvent(kg_pid))
    /\ pc' = "kg_stage2"
    /\ UNCHANGED <<envVars, alive, caller, session, kg_pid, kg_stage1, kg_result,
                   kg_existed, kg_killed, kg_present, lastKill, appVars, now,
                   storeVars, ks, op>>

\* During the grace period the process acts on the graceful request and exits.
TermExit ==
    /\ pc = "kg_sleep"
    /\ kg_pid \in alive
    /\ alive' = alive \ {kg_pid}
    /\ kg_killed' = TRUE
    /\ UNCHANGED <<envVars, pc, caller, session, kg_pid, kg_stage1, kg_result,
                   kg_log, kg_existed, kg_present, lastKill, appVars, now,
                   storeVars, ks, op>>

\* Stage 2: self.kill(pid, true).await, whose result is the call's result.
KgStage2 ==
    /\ pc = "kg_stage2"
    /\ \E o \in Outcomes(kg_pid) :
         LET e == KillEvent(kg_pid, TRUE, o)
             a == AliveAfter(kg_pid, e.prim, o)
         IN  /\ kg_log' = Append(kg_log, e)
             /\ alive' = a
             /\ kg_killed' = (kg_killed \/ (kg_pid \in alive /\ kg_pid \notin a))
             /\ kg_result' = stage2_return(kg_stage1 = "true", e.result)
             /\ pc' = "kg_ret"
    /\ UNCHANGED <<envVars, caller, session, kg_pid, kg_stage1, kg_existed,
                   kg_present, lastKill, appVars, now, storeVars, ks, op>>

-----------------------------------------------------------------------------
(* A client of ProcessKiller (the library API, as the CLI commands use it) *)

ApiKillGracefully ==
    /\ pc = "idle"
    /\ alive' = alive
    /\ \E pid \in Pids : kill_gracefully_enter(pid, "api")
    /\ UNCHANGED <<envVars, session, lastKill, appVars, now, storeVars,
                   ks, op>>

ApiReturn ==
    /\ pc = "kg_ret"
    /\ caller = "api"
    /\ pc' = "idle"
    /\ UNCHANGED <<envVars, alive, caller, session, kgVars, lastKill, appVars,
                   now, storeVars, ks, op>>

\* A direct kill(pid, force) call.
ApiKill ==
    /\ pc = "idle"
    /\ \E pid \in Pids, force \in BOOLEAN :
         \E o \in Outcomes(pid) :
             LET e == KillEvent(pid, force, o)
             IN  /\ lastKill' = e
                 /\ alive' = AliveAfter(pid, e.prim, o)
    /\ UNCHANGED <<envVars, pc, caller, session, kgVars, appVars, now,
                   storeVars, ks, op>>

\* Processes start (possibly reusing a pid) and exit on their own.
EnvSpawn ==
    /\ session = "none"
    /\ pc \in {"idle", "kg_sleep"}
    /\ \E pid \in world \ alive :
         /\ alive' = alive \cup {pid}
         /\ kg_present' = (kg_present \/ (pc = "kg_sleep" /\ pid = kg_pid))
    /\ UNCHANGED <<envVars, pc, caller, session, kg_pid, kg_stage1, kg_result,
                   kg_log, kg_existed, kg_killed, lastKill, appVars, now,
                   storeVars, ks, op>>

EnvExit ==
    /\ session = "none"
    /\ pc = "idle"
    /\ \E pid \in alive : alive' = alive \ {pid}
    /\ UNCHANGED <<envVars, pc, caller, session, kgVars, lastKill, appVars, now,
                   storeVars, ks, op>>

InitKiller ==
    /\ platform \in Platforms
    /\ world = Pids
    /\ alive \in SUBSET Pids
    /\ pc = "idle"
    /\ caller = "api"
    /\ session = "none"
    /\ kg_pid = 0
    /\ kg_stage1 = "none"
    /\ kg_result = NoResult
    /\ kg_log = <<>>
    /\ kg_existed = FALSE
    /\ kg_killed = FALSE
    /\ kg_present = FALSE
    /\ lastKill = NoKill
    /\ ports = <<>>
    /\ favorites = {}
    /\ watched = {}
    /\ selected = 0
    /\ search_query = <<>>
    /\ searching = FALSE
    /\ status_message = NoStatus
    /\ last_refresh = 0
    /\ now = 0
    /\ cfgFav = {}
    /\ cfgWatched = {}
    /\ ks = NoKs
    /\ op = NoOp
    /\ FilterIdle

NextKiller ==
    \/ ApiKillGracefully
    \/ KgStage1
    \/ KgSleep
    \/ TermExit
    \/ KgStage2
    \/ ApiReturn
    \/ ApiKill
    \/ EnvSpawn
    \/ EnvExit

SpecKiller == InitKiller /\ [][NextKiller]_vars


-----------------------------------------------------------------------------
(* Properties of ProcessKiller *)

KillEventsOf(log) == {i \in DOMAIN log : log[i].ev = "kill"}

ForcedRequests(log) == {i \in DOMAIN log : log[i].ev = "kill" /\ log[i].force}

SleepsOf(log) == {i \in DOMAIN log : log[i].ev = "sleep"}

KgReturned == pc = "kg_ret"

C3_Claim ==
    KgReturned =>
        /\ (kg_existed /\ kg_killed) => kg_result = Ok(TRUE)
        /\ kg_result = Ok(FALSE) => ~kg_existed

AllKillEvents ==
    {kg_log[i] : i \in KillEventsOf(kg_log)} \cup
    (IF lastKill.ev = "kill" THEN {lastKill} ELSE {})

NoSuchProcess(outcome) == outcome \in {"ESRCH", StderrNotFound, StderrNoSuch}

LacksRights(outcome) == outcome \in {"EPERM", StderrDenied}

\* C4 as claimed: kill(pid, force) sends the graceful-request signal iff force
\* is false and the unconditional-termination signal iff force is true, and
\* maps the OS outcome: accepted -> Ok(true); no such process -> Ok(false);
\* caller lacks rights -> Err(PermissionDenied); any other rejection ->
\* Err(KillFailed) carrying the OS reason.
C4_Original ==
    \A e \in AllKillEvents :
        /\ Unconditional(e.prim) <=> e.force
        /\ e.result =
             CASE Delivered(e.outcome) -> Ok(TRUE)
               [] NoSuchProcess(e.outcome) -> Ok(FALSE)
               [] LacksRights(e.outcome) -> Err("PermissionDenied", e.pid, "")
               [] OTHER -> Err("KillFailed", e.pid, e.outcome)

\* C4 amended: on the unix build kill(pid, force) sends SIGTERM iff force is
\* false and SIGKILL iff force is true, and maps accepted -> Ok(true), ESRCH ->
\* Ok(false), EPERM -> Err(PermissionDenied), any other errno -> Err(KillFailed)
\* with the errno text.  On the windows build it issues the forced taskkill
\* whatever force is, and maps success -> Ok(true), a failure whose stderr
\* says the process is absent -> Ok(false), failure to run taskkill ->
\* Err(CommandFailed), and any other failure (lack of rights included) ->
\* Err(KillFailed) with the stderr text.
C4_KillMapping ==
    \A e \in AllKillEvents :
        IF platform = "unix"
        THEN /\ e.prim = (IF e.force THEN "SIGKILL" ELSE "SIGTERM")
             /\ e.outcome = "OK" => e.result = Ok(TRUE)
             /\ e.outcome = "ESRCH" => e.result = Ok(FALSE)
             /\ e.outcome = "EPERM" => e.result = Err("PermissionDenied", e.pid, "")
             /\ e.outcome \notin {"OK", "ESRCH", "EPERM"} =>
                    e.result = Err("KillFailed", e.pid, e.outcome)
        ELSE /\ e.prim = "TASKKILL_F"
             /\ e.outcome = "SUCCESS" => e.result = Ok(TRUE)
             /\ NoSuchProcess(e.outcome) => e.result = Ok(FALSE)
             /\ e.outcome = "SPAWN_FAILED" => e.result.kind = "CommandFailed"
             /\ e.outcome = StderrDenied =>
                    e.result = Err("KillFailed", e.pid, StderrDenied)
             /\ e.result.kind # "PermissionDenied"

\* C4 witness: a direct kill with force = true was accepted on unix.
C4_Witness ==
    /\ platform = "unix"
    /\ lastKill.ev = "kill"
    /\ lastKill.force
    /\ lastKill.outcome = "OK"
    /\ lastKill.result = Ok(TRUE)


-----------------------------------------------------------------------------
(* PortInfo records and the text operations filtered_ports uses *)

\* The listening socket each process owns (strings are sequences of chars).
PortInfoOf(pid) ==
    CASE pid = 1 -> [port |-> 80, pid |-> 1, process_name |-> <<"A", "p">>,
                     command |-> <<>>]
      [] pid = 2 -> [port |-> 80, pid |-> 2, process_name |-> <<"n">>,
                     command |-> <<"a", "8">>]
      [] OTHER   -> [port |-> 3, pid |-> pid, process_name |-> <<"a">>,
                     command |-> <<>>]

PortNums == {PortInfoOf(pid).port : pid \in Pids}

\* char::to_lowercase on the characters in use.
to_lowercase_char(c) ==
    CASE c = "A" -> "a"
      [] c = "P" -> "p"
      [] c = "N" -> "n"
      [] OTHER -> c

\* str::to_lowercase
to_lowercase(str) == [i \in DOMAIN str |-> to_lowercase_char(str[i])]

DigitChar(d) == <<"0", "1", "2", "3", "4", "5", "6", "7", "8", "9">>[d + 1]

\* u16::to_string: the decimal digits, most significant first.
RECURSIVE to_string(_)
to_string(n) ==
    IF n < 10 THEN <<DigitChar(n)>>
    ELSE Append(to_string(n \div 10), DigitChar(n % 10))

\* str::contains: pat occurs as a contiguous substring of str.
contains(str, pat) ==
    \E i \in 0..(Len(str) - Len(pat)) : SubSeq(str, i + 1, i + Len(pat)) = pat

\* The closure of filtered_ports.
query_matches(p, query) ==
    \/ contains(to_lowercase(p.process_name), query)
    \/ contains(to_string(p.port), query)
    \/ contains(to_lowercase(p.command), query)

\* App::filtered_ports, as a function of the table and the query.
filtered(table, q) ==
    IF q = <<>> THEN table
    ELSE SelectSeq(table, LAMBDA p : query_matches(p, to_lowercase(q)))

filtered_ports == filtered(ports, search_query)

\* App::selected_port: filtered.get(self.selected)
has_selected_port == selected < Len(filtered_ports)

selected_port == filtered_ports[selected + 1]

-----------------------------------------------------------------------------
(* Scanner: the table a scan returns for the processes alive at that time *)

RECURSIVE Perms(_)
Perms(S) ==
    IF S = {} THEN {<<>>}
    ELSE UNION {{<<PortInfoOf(x)>> \o t : t \in Perms(S \ {x})} : x \in S}

Scans(a) == Perms(a)

-----------------------------------------------------------------------------
(* Status messages *)

\* App::set_status
set_status(m) == [msg |-> m, at |-> now, set |-> TRUE]

StatusWindow == 3000

get_status_inclusive ==
    IF status_message.set /\ now - status_message.at <= StatusWindow
    THEN <<status_message.msg>>
    ELSE <<>>

\* App::get_status at the current instant: the text, or <<>> when absent.
get_status ==
    IF status_message.set /\ now - status_message.at < StatusWindow
    THEN <<status_message.msg>>
    ELSE <<>>

RefreshInterval == 5000

should_refresh_inclusive == now - last_refresh >= RefreshInterval

\* App::should_refresh
should_refresh == now - last_refresh > RefreshInterval


-----------------------------------------------------------------------------
(* App::refresh *)

\* Where a refresh can fail: the scan, get_favorites or get_watched_ports.
FailPoints == {"none", "scan", "favorites", "watched"}

\* "Ensure selected is within bounds": the index kept after a refresh.
clamp_selected(sel, len) == IF sel >= len /\ len > 0 THEN len - 1 ELSE sel

\* The body of refresh, each `?` returning early with what was assigned so far.
\* `table` is what the scan returned, `st` the status message on entry.
refresh(table, failAt, st) ==
    /\ ports' = IF failAt = "scan" THEN ports ELSE table
    /\ favorites' = IF failAt \in {"scan", "favorites"} THEN favorites ELSE cfgFav
    /\ watched' = IF failAt = "none" THEN cfgWatched ELSE watched
    /\ last_refresh' = IF failAt = "none" THEN now ELSE last_refresh
    /\ selected' = IF failAt = "none"
                   THEN clamp_selected(selected, Len(filtered(table, search_query)))
                   ELSE selected
    /\ status_message' = IF failAt = "none"
                         THEN set_status(Msg("Refreshed", <<>>, 0, NoErr))
                         ELSE st
    /\ UNCHANGED <<search_query, searching>>

propagate_skips_auto(failed) ==
    /\ session' = IF failed THEN "failed" ELSE session
    /\ pc' = IF failed THEN "done" ELSE "poll"

\* run_app applies `?` to an operation's result: an Err ends the loop;
\* otherwise control falls through to the should_refresh check.
propagate(failed) ==
    /\ session' = IF failed THEN "failed" ELSE session
    /\ pc' = IF failed THEN "done" ELSE "auto"

-----------------------------------------------------------------------------
(* run_app: the key dispatch of one loop iteration *)

CharKeys == {"q", "r", "j", "k", "g", "G", "x", "f", "w", "/", "A", "8"}

Keys == CharKeys \cup {"Esc", "Down", "Up", "Delete", "Enter", "Backspace", "Tab"}

\* The match on key.code, arms tried in order.
dispatch(code, is_searching) ==
    CASE code \in {"q", "Esc"} -> "quit"
      [] code = "r" -> "refresh"
      [] code \in {"j", "Down"} -> "next"
      [] code \in {"k", "Up"} -> "previous"
      [] code = "g" -> "first"
      [] code = "G" -> "last"
      [] code \in {"x", "Delete"} -> "kill_selected"
      [] code = "f" -> "toggle_favorite"
      [] code = "w" -> "toggle_watch"
      [] code = "/" -> "start_search"
      [] code = "Enter" -> IF is_searching THEN "end_search" ELSE "nothing"
      [] code \in CharKeys /\ is_searching -> "search_input"
      [] code = "Backspace" /\ is_searching -> "search_backspace"
      [] OTHER -> "nothing"

Polling == session = "running" /\ pc = "poll"

\* No key event was read.
NoKey == ""

\* event::read() returned a press of a key that the match sends to `handler`.
Pressed(handler) == \E k \in Keys : dispatch(k, searching) = handler /\ key' = k

OpRec(name) == [NoOp EXCEPT !.name = name]

\* What a step that ran refresh records: the index held before it, whether
\* the scan was started, and whether the refresh completed.
RefreshRec(name, failAt) ==
    [name |-> name, pre_sel |-> selected, refreshed |-> (failAt = "none"),
     scanned |-> TRUE, failed |-> (failAt # "none"), call |-> <<>>]

KeyQuit ==
    /\ Polling
    /\ Pressed("quit")
    /\ session' = "quit"
    /\ pc' = "done"
    /\ op' = OpRec("quit")
    /\ UNCHANGED <<hostVars, alive, caller, kgVars, lastKill, appVars, now,
                   storeVars, ks>>

\* KeyCode::Char('r') => app.refresh().await?
KeyRefresh ==
    /\ Polling
    /\ Pressed("refresh")
    /\ \E a \in SUBSET world, failAt \in FailPoints :
         \E table \in Scans(a) :
             /\ alive' = a
             /\ refresh(table, failAt, status_message)
             /\ propagate(failAt # "none")
             /\ op' = RefreshRec("refresh", failAt)
    /\ UNCHANGED <<hostVars, caller, kgVars, lastKill, now, storeVars, ks>>

-----------------------------------------------------------------------------
(* Navigation *)

\* App::next
next(sel, len) == IF len > 0 THEN (sel + 1) % len ELSE sel

\* App::previous: checked_sub(1).unwrap_or(len - 1)
previous(sel, len) == IF len > 0 THEN (IF sel >= 1 THEN sel - 1 ELSE len - 1) ELSE sel

\* App::first
first(sel, len) == 0

\* App::last
last(sel, len) == IF len > 0 THEN len - 1 ELSE sel

Navigate(handler, newsel) ==
    /\ Polling
    /\ Pressed(handler)
    /\ selected' = newsel
    /\ pc' = "auto"
    /\ op' = OpRec(handler)
    /\ UNCHANGED <<hostVars, alive, caller, session, kgVars, lastKill, ports,
                   favorites, watched, search_query, searching, status_message,
                   last_refresh, now, storeVars, ks>>

KeyNext == Navigate("next", next(selected, Len(filtered_ports)))

KeyPrevious == Navigate("previous", previous(selected, Len(filtered_ports)))

KeyFirst == Navigate("first", first(selected, Len(filtered_ports)))

KeyLast == Navigate("last", last(selected, Len(filtered_ports)))


-----------------------------------------------------------------------------
(* App::kill_selected *)

\* KeyCode::Char('x') | KeyCode::Delete => app.kill_selected().await?
\* Resolves the selection and enters kill_gracefully; by then the process the
\* table names may already have exited.
KeyKill ==
    /\ Polling
    /\ Pressed("kill_selected")
    /\ op' = OpRec("kill_selected")
    /\ IF has_selected_port
       THEN /\ ks' = [pid |-> selected_port.pid, port |-> selected_port.port,
                      name |-> selected_port.process_name]
            /\ \E a \in {alive, alive \ {selected_port.pid}} : alive' = a
            /\ kill_gracefully_enter(selected_port.pid, "kill_selected")
       ELSE /\ pc' = "auto"
            /\ UNCHANGED <<alive, caller, kgVars, ks>>
    /\ UNCHANGED <<hostVars, session, lastKill, appVars, now, storeVars>>

kill_refreshes_always(r) == IsOk(r)

\* The `Ok(true)` arm is the one that refreshes.
kill_refreshes(r) == IsOk(r) /\ r.val

\* The status message each arm of the match sets.
kill_status(r, k) ==
    CASE IsOk(r) /\ r.val -> Msg("Killed", k.name, k.port, NoErr)
      [] IsOk(r) /\ ~r.val -> Msg("AlreadyTerminated", <<>>, k.pid, NoErr)
      [] OTHER -> Msg("FailedToKill", <<>>, 0, ErrOf(r))

\* kill_gracefully has returned into kill_selected: the match on its result.
KillSelectedReturn ==
    /\ session = "running"
    /\ pc = "kg_ret"
    /\ caller = "kill_selected"
    /\ IF kill_refreshes(kg_result)
       THEN \E a \in SUBSET world, failAt \in FailPoints :
              \E table \in Scans(a) :
                  /\ alive' = a
                  /\ refresh(table, failAt, set_status(kill_status(kg_result, ks)))
                  /\ propagate(failAt # "none")
                  /\ op' = RefreshRec("kill_selected", failAt)
       ELSE /\ status_message' = set_status(kill_status(kg_result, ks))
            /\ propagate(FALSE)
            /\ UNCHANGED <<alive, ports, favorites, watched, selected,
                           search_query, searching, last_refresh, op>>
    /\ UNCHANGED <<envVars, caller, kgVars, lastKill, now, storeVars, ks>>

-----------------------------------------------------------------------------
(* App::toggle_favorite / App::toggle_watch *)

\* ConfigStore::add_favorite / remove_favorite / add_watched_port /
\* remove_watched_port, as the set of ports the store then holds.
store_apply(call, stored, p) ==
    IF call \in {"add_favorite", "add_watched_port"} THEN stored \cup {p}
    ELSE stored \ {p}

\* The intent a toggle issues: decided by membership in the snapshot.
toggle_call(set, p, remove, add) == IF p \in set THEN remove ELSE add

toggled_adds(set, p) == set \cup {p}

\* The snapshot after the store call succeeded: remove(&p) or insert(p).
toggled(set, p) == IF p \in set THEN set \ {p} ELSE set \cup {p}

snapshot_after_eager(storeFails, set, p) == toggled(set, p)

\* The snapshot when the toggle returns: `?` on the store call returns
\* before the snapshot is touched.
snapshot_after(storeFails, set, p) == IF storeFails THEN set ELSE toggled(set, p)

toggle_msg(set, p, removed, added) ==
    IF p \in set THEN Msg(removed, <<>>, p, NoErr) ELSE Msg(added, <<>>, p, NoErr)

\* KeyCode::Char('f') => app.toggle_favorite().await?
KeyToggleFavorite ==
    /\ Polling
    /\ Pressed("toggle_favorite")
    /\ IF has_selected_port
       THEN \E storeFails \in BOOLEAN :
              LET p == selected_port.port
                  call == toggle_call(favorites, p, "remove_favorite", "add_favorite")
              IN  /\ cfgFav' = IF storeFails THEN cfgFav
                                ELSE store_apply(call, cfgFav, p)
                  /\ favorites' = snapshot_after(storeFails, favorites, p)
                  /\ status_message' =
                         IF storeFails THEN status_message
                         ELSE set_status(toggle_msg(favorites, p,
                                  "RemovedFromFavorites", "AddedToFavorites"))
                  /\ propagate(storeFails)
                  /\ op' = [OpRec("toggle_favorite") EXCEPT !.failed = storeFails,
                                                            !.call = <<call, p>>]
       ELSE /\ propagate(FALSE)
            /\ op' = OpRec("toggle_favorite")
            /\ UNCHANGED <<cfgFav, favorites, status_message>>
    /\ UNCHANGED <<hostVars, alive, caller, kgVars, lastKill, ports, watched,
                   selected, search_query, searching, last_refresh, now,
                   cfgWatched, ks>>

\* KeyCode::Char('w') => app.toggle_watch().await?
KeyToggleWatch ==
    /\ Polling
    /\ Pressed("toggle_watch")
    /\ IF has_selected_port
       THEN \E storeFails \in BOOLEAN :
              LET p == selected_port.port
                  call == toggle_call(watched, p, "remove_watched_port",
                                      "add_watched_port")
              IN  /\ cfgWatched' = IF storeFails THEN cfgWatched
                                    ELSE store_apply(call, cfgWatched, p)
                  /\ watched' = snapshot_after(storeFails, watched, p)
                  /\ status_message' =
                         IF storeFails THEN status_message
                         ELSE set_status(toggle_msg(watched, p,
                                  "StoppedWatching", "NowWatching"))
                  /\ propagate(storeFails)
                  /\ op' = [OpRec("toggle_watch") EXCEPT !.failed = storeFails,
                                                         !.call = <<call, p>>]
       ELSE /\ propagate(FALSE)
            /\ op' = OpRec("toggle_watch")
            /\ UNCHANGED <<cfgWatched, watched, status_message>>
    /\ UNCHANGED <<hostVars, alive, caller, kgVars, lastKill, ports, favorites,
                   selected, search_query, searching, last_refresh, now,
                   cfgFav, ks>>

\* Another process (the `favorites` / `watch` CLI commands) edits the store
\* the session took its snapshots from.
CliStoreCommand ==
    /\ Polling
    /\ \E p \in PortNums :
         \/ \E call \in {"add_favorite", "remove_favorite"} :
               /\ cfgFav' = store_apply(call, cfgFav, p)
               /\ cfgFav' # cfgFav
               /\ UNCHANGED cfgWatched
         \/ \E call \in {"add_watched_port", "remove_watched_port"} :
               /\ cfgWatched' = store_apply(call, cfgWatched, p)
               /\ cfgWatched' # cfgWatched
               /\ UNCHANGED cfgFav
    /\ UNCHANGED <<envVars, alive, pc, caller, session, kgVars, lastKill,
                   appVars, now, ks, op>>

-----------------------------------------------------------------------------
(* Search mode *)

SearchStep(handler, q, sel, mode) ==
    /\ Polling
    /\ search_query' = q
    /\ selected' = sel
    /\ searching' = mode
    /\ pc' = "auto"
    /\ op' = OpRec(handler)
    /\ UNCHANGED <<hostVars, alive, caller, session, kgVars, lastKill, ports,
                   favorites, watched, status_message, last_refresh, now,
                   storeVars, ks>>

pop_front(str) == IF str = <<>> THEN str ELSE SubSeq(str, 2, Len(str))

\* String::pop
pop(str) == IF str = <<>> THEN str ELSE SubSeq(str, 1, Len(str) - 1)

\* App::start_search
KeyStartSearch ==
    /\ Pressed("start_search")
    /\ SearchStep("start_search", <<>>, selected, TRUE)

KeyEndSearchClears ==
    /\ Pressed("end_search")
    /\ SearchStep("end_search", <<>>, selected, FALSE)

\* KeyCode::Enter => if app.is_searching() { app.end_search() }
KeyEndSearch ==
    /\ Pressed("end_search")
    /\ SearchStep("end_search", search_query, selected, FALSE)

\* KeyCode::Char(c) if app.is_searching() => app.search_input(c)
KeySearchInput ==
    /\ Len(search_query) < MaxQuery
    /\ \E c \in Keys :
         /\ dispatch(c, searching) = "search_input"
         /\ key' = c
         /\ SearchStep("search_input", Append(search_query, c), 0, searching)

\* KeyCode::Backspace if app.is_searching() => app.search_backspace()
KeySearchBackspace ==
    /\ Pressed("search_backspace")
    /\ SearchStep("search_backspace", pop(search_query), 0, searching)

\* `_ => {}`, a key event that is not a press, or no event within the poll
\* interval: the iteration applies no transition.
KeyNothing ==
    /\ Polling
    /\ (Pressed("nothing") \/ key' = NoKey)
    /\ pc' = "auto"
    /\ op' = OpRec("nothing")
    /\ UNCHANGED <<hostVars, alive, caller, session, kgVars, lastKill, appVars,
                   now, storeVars, ks>>

-----------------------------------------------------------------------------
(* The end of a loop iteration: `if app.should_refresh() { app.refresh().await? }` *)

AutoRefresh ==
    /\ session = "running"
    /\ pc = "auto"
    /\ IF should_refresh
       THEN \E a \in SUBSET world, failAt \in FailPoints :
              \E table \in Scans(a) :
                  /\ alive' = a
                  /\ refresh(table, failAt, status_message)
                  /\ session' = IF failAt # "none" THEN "failed" ELSE session
                  /\ pc' = IF failAt # "none" THEN "done" ELSE "poll"
                  /\ op' = RefreshRec("auto_refresh", failAt)
       ELSE /\ pc' = "poll"
            /\ op' = NoOp
            /\ UNCHANGED <<alive, session, appVars>>
    /\ ks' = NoKs
    /\ key' = NoKey
    /\ kg_pid' = 0
    /\ kg_stage1' = "none"
    /\ kg_result' = NoResult
    /\ kg_log' = <<>>
    /\ kg_existed' = FALSE
    /\ kg_killed' = FALSE
    /\ kg_present' = FALSE
    /\ UNCHANGED <<hostVars, caller, lastKill, now, storeVars>>

-----------------------------------------------------------------------------
(* The interactive session *)

\* App::new succeeded: an initial scan and config load.  The scanners for
\* linux and windows always fail, so a session exists on the unix build only.
InitSession(w) ==
    /\ platform = "unix"
    /\ world = w
    /\ alive \in SUBSET w
    /\ pc = "poll"
    /\ caller = "kill_selected"
    /\ session = "running"
    /\ kg_pid = 0
    /\ kg_stage1 = "none"
    /\ kg_result = NoResult
    /\ kg_log = <<>>
    /\ kg_existed = FALSE
    /\ kg_killed = FALSE
    /\ kg_present = FALSE
    /\ lastKill = NoKill
    /\ ports \in Scans(alive)
    /\ cfgFav \in {{}, {80}}
    /\ cfgWatched = {3}
    /\ favorites = cfgFav
    /\ watched = cfgWatched
    /\ selected = 0
    /\ search_query = <<>>
    /\ searching = FALSE
    /\ status_message = NoStatus
    /\ last_refresh = 0
    /\ now = 0
    /\ ks = NoKs
    /\ op = NoOp
    /\ FilterIdle

Init == InitSession(Pids)

Next ==
    \/ KeyQuit
    \/ KeyRefresh
    \/ KeyNext
    \/ KeyPrevious
    \/ KeyFirst
    \/ KeyLast
    \/ KeyKill
    \/ KgStage1
    \/ KgSleep
    \/ TermExit
    \/ KgStage2
    \/ KillSelectedReturn
    \/ KeyStartSearch
    \/ KeyEndSearch
    \/ KeySearchInput
    \/ KeySearchBackspace
    \/ KeyNothing
    \/ AutoRefresh

Spec == Init /\ [][Next]_vars


-----------------------------------------------------------------------------
(* Properties of the interactive session *)

\* C5 as claimed: no failure of a single action terminates the driving loop;
\* an operation that raised an error leaves the session running.
C5_Claim == op.failed => session = "running"

KillSelectedReturns ==
    session = "running" /\ pc = "kg_ret" /\ caller = "kill_selected"

\* C6: when kill_gracefully returns Ok(false) or an error for the selected
\* record, kill_selected returns Ok (the loop goes on), sets the status
\* message ("already terminated" with the pid for Ok(false), the failure
\* reason for an error), starts no scan, and leaves ports, favorites, watched,
\* selected, search_query and searching unchanged.
C6_KillFailureIsNotFatal ==
    [][(KillSelectedReturns /\ pc' # pc /\ kg_result # Ok(TRUE)) =>
          /\ session' = "running"
          /\ pc' = "auto"
          /\ ~op'.scanned
          /\ status_message' =
               [msg |-> IF kg_result = Ok(FALSE)
                        THEN Msg("AlreadyTerminated", <<>>, ks.pid, NoErr)
                        ELSE Msg("FailedToKill", <<>>, 0, ErrOf(kg_result)),
                at |-> now, set |-> TRUE]
          /\ UNCHANGED <<ports, favorites, watched, selected, search_query,
                         searching>>]_vars

\* C6 witness: kill_selected has returned after kill_gracefully reported an
\* error, and the status message carries the reason.
C6_Witness ==
    /\ session = "running"
    /\ pc = "auto"
    /\ op.name = "kill_selected"
    /\ IsErr(kg_result)
    /\ status_message.msg.kind = "FailedToKill"
    /\ status_message.msg.err.kind = "PermissionDenied"

\* C7 as claimed: whenever kill_selected's kill attempt terminated the
\* selected process, kill_selected ran a refresh (after both stages) before
\* it returned.
C7_Claim ==
    (pc \in {"auto", "done"} /\ op.name = "kill_selected" /\ kg_existed /\ kg_killed)
        => op.scanned

\* C8 as claimed: after a successful refresh, with L the new filtered length
\* and s the index held before: s >= L gives L - 1 when L > 0 and 0 when
\* L = 0; s < L gives s.
C8_Claim ==
    op.refreshed =>
        LET L == Len(filtered_ports)
            s == op.pre_sel
        IN  IF s >= L THEN selected = (IF L > 0 THEN L - 1 ELSE 0)
            ELSE selected = s

\* C9 as claimed: in every state of a running session, selected is in bounds
\* of the filtered view whenever that view is non-empty.
C9_Claim ==
    (session = "running" /\ Len(filtered_ports) > 0) =>
        selected < Len(filtered_ports)

\* n successive calls of next() over a view whose length stays len.
RECURSIVE next_times(_, _, _)
next_times(sel, len, n) ==
    IF n = 0 THEN sel ELSE next_times(next(sel, len), len, n - 1)

\* C10 as claimed: with the table and the query held fixed and a filtered view
\* of length n > 0, n calls of next() return selected to its starting value.
C10_Claim ==
    (session = "running" /\ Len(filtered_ports) > 0) =>
        next_times(selected, Len(filtered_ports), Len(filtered_ports)) = selected

\* A step in which run_app called the navigation operation h.
NavStep(h) == Polling /\ pc' = "auto" /\ op'.name = h

NavOps == {"next", "previous", "first", "last"}

\* C11 as claimed: over the current filtered view, next at the last index
\* selects index 0, previous at index 0 selects the last index, last selects
\* length - 1 and first selects 0; and when the filtered view is empty each
\* of next, previous, first and last leaves the whole session state, selected
\* included, unchanged.
C11_Claim ==
    [][LET len == Len(filtered_ports)
       IN  /\ (NavStep("next") /\ len > 0 /\ selected = len - 1) => selected' = 0
           /\ (NavStep("previous") /\ len > 0 /\ selected = 0) => selected' = len - 1
           /\ (NavStep("last") /\ len > 0) => selected' = len - 1
           /\ (NavStep("first") /\ len > 0) => selected' = 0
           /\ ((\E h \in NavOps : NavStep(h)) /\ len = 0) =>
                  UNCHANGED <<appVars, session, storeVars>>]_vars

\* The part of C11 the code does satisfy: everything but first() on an
\* empty view.
C11_ExceptFirstOnEmpty ==
    [][LET len == Len(filtered_ports)
       IN  /\ (NavStep("next") /\ len > 0 /\ selected = len - 1) => selected' = 0
           /\ (NavStep("previous") /\ len > 0 /\ selected = 0) => selected' = len - 1
           /\ (NavStep("last") /\ len > 0) => selected' = len - 1
           /\ NavStep("first") => selected' = 0
           /\ ((\E h \in NavOps \ {"first"} : NavStep(h)) /\ len = 0) =>
                  UNCHANGED <<appVars, session, storeVars>>]_vars

-----------------------------------------------------------------------------
(* The interactive session under a running clock *)

\* Time passes: while the loop waits in event::poll, and across every await.
Tick ==
    /\ session = "running"
    /\ \E d \in TickDeltas :
         /\ now + d <= MaxTime
         /\ now' = now + d
    /\ UNCHANGED <<envVars, alive, pc, caller, session, kgVars, lastKill,
                   appVars, storeVars, ks, op>>

\* A host on which only the processes 1 and 3 ever run.
InitTimed == InitSession({1, 3})

NextTimed ==
    \/ Tick
    \/ KeyQuit
    \/ KeyRefresh
    \/ KeyKill
    \/ KgStage1
    \/ KgSleep
    \/ TermExit
    \/ KgStage2
    \/ KillSelectedReturn
    \/ KeyNothing
    \/ AutoRefresh

SpecTimed == InitTimed /\ [][NextTimed]_vars

-----------------------------------------------------------------------------
(* Properties of the status message and of the refresh interval *)

\* C12: a status message set at time t is returned by get_status at every
\* time strictly less than t + 3 s and reported absent at t + 3 s or later;
\* and the stored message changes only by a set_status, which stores the
\* current time (nothing dismisses or rewrites it in the background).
C12_StatusExpiry ==
    /\ [](status_message.set =>
            /\ now < status_message.at + 3000 => get_status = <<status_message.msg>>
            /\ now >= status_message.at + 3000 => get_status = <<>>)
    /\ [](~status_message.set => get_status = <<>>)
    /\ [][status_message' # status_message =>
            /\ status_message'.set
            /\ status_message'.at = now
            /\ status_message'.msg.kind # ""
            /\ op'.name \in {"refresh", "kill_selected", "auto_refresh"}]_vars

\* C12 witness: a message set by an operation is exactly 3 s old and is no
\* longer reported.
C12_Witness ==
    /\ status_message.set
    /\ status_message.at > 0
    /\ now = status_message.at + 3000
    /\ get_status = <<>>

\* C13 as claimed: should_refresh() is true exactly when 5 s have elapsed
\* since the last successful refresh (or construction): false at every time
\* less than 5 s after it, true at every time from 5 s on.
C13_Original ==
    session = "running" => (should_refresh <=> now - last_refresh >= 5000)

\* C13 amended: last_refresh is the time of construction or of the latest
\* successful refresh, and should_refresh() is true exactly when strictly
\* more than 5 s have elapsed since then: false immediately after a
\* successful refresh and at every time up to and including 5 s later, true
\* at every later time until the next successful refresh.
C13_StrictInterval ==
    /\ [](should_refresh <=> now > last_refresh + 5000)
    /\ [](last_refresh <= now)
    /\ [][(pc' # pc /\ op'.refreshed) =>
            (last_refresh' = now /\ now' = now /\ ~should_refresh')]_vars
    /\ [][last_refresh' # last_refresh => (pc' # pc /\ op'.refreshed)]_vars

\* C13 witness: exactly 5 s after a successful refresh, should_refresh() is
\* still false.
C13_Witness ==
    /\ session = "running"
    /\ last_refresh > 0
    /\ now = last_refresh + 5000
    /\ ~should_refresh

-----------------------------------------------------------------------------
(* Properties of the driving loop *)

\* A ProcessKiller call is in flight.
KillInFlight == pc \in {"kg_stage1", "kg_sleep", "kg_stage2"}

\* C14: each iteration of the driving loop applies at most one user-triggered
\* transition (from the poll, ended by the should_refresh check or by the
\* loop's exit) followed by at most one automatic refresh (from the check,
\* ended by the next iteration or the loop's exit); while a ProcessKiller
\* call is in flight no scan or config-store call starts and no session field
\* changes; and the session and the store change only in a step of the
\* control thread.
C14_OneAtATime ==
    [][/\ (pc = "poll" /\ <<appVars, storeVars, session, op>>' #
                           <<appVars, storeVars, session, op>>) =>
              /\ pc' \in {"auto", "done", "kg_stage1"}
              /\ op'.name \notin {"auto_refresh", "none"}
       /\ (pc = "auto" /\ pc' # pc) =>
              /\ pc' \in {"poll", "done"}
              /\ op'.name \in {"auto_refresh", "none"}
              /\ (appVars' # appVars => (should_refresh /\ op'.scanned))
       /\ KillInFlight =>
              /\ UNCHANGED <<appVars, storeVars, session, op>>
              /\ pc' \in {pc, "kg_sleep", "kg_stage2", "kg_ret"}
       /\ (pc = "kg_ret" /\ pc' # pc) =>
              (pc' \in {"auto", "done"} /\ op'.name = "kill_selected")
       /\ pc = "done" => UNCHANGED vars
       /\ pc' = pc => UNCHANGED <<appVars, storeVars, session, op>>]_vars

\* C14 witness: the automatic refresh has become due while kill_selected's
\* ProcessKiller call is still in flight.
C14_Witness ==
    /\ session = "running"
    /\ pc = "kg_sleep"
    /\ should_refresh

-----------------------------------------------------------------------------
(* PortFilter: is_active, matches, reset, the mutators, and filter_ports *)

\* PortInfo::process_type: a fixed lookup on the process name.
process_type(p) ==
    CASE p.process_name = <<"A", "p">> -> "WebServer"
      [] p.process_name = <<"n">> -> "Development"
      [] OTHER -> "Other"

\* PortInfo::matches_search: case-insensitive substring match against the
\* process name, the port as a decimal string, and the command.
matches_search(p, text) == query_matches(p, to_lowercase(text))

\* WatchedPort::new(port)
WatchedPort(port) == [port |-> port, notify_on_start |-> TRUE, notify_on_stop |-> TRUE]

is_active_ignores_types(f) ==
    \/ f.search_text # <<>>
    \/ f.min_port # None
    \/ f.max_port # None
    \/ f.show_only_favorites
    \/ f.show_only_watched

\* PortFilter::is_active
is_active(f) ==
    \/ f.search_text # <<>>
    \/ f.min_port # None
    \/ f.max_port # None
    \/ Cardinality(f.process_types) < Cardinality(ProcessTypeALL)
    \/ f.show_only_favorites
    \/ f.show_only_watched

matches_exclusive_min(f, port, favs, watch) ==
    IF f.search_text # <<>> /\ ~matches_search(port, f.search_text) THEN FALSE
    ELSE IF f.min_port # None /\ port.port <= f.min_port[1] THEN FALSE
    ELSE IF f.max_port # None /\ port.port > f.max_port[1] THEN FALSE
    ELSE IF f.process_types # {} /\ process_type(port) \notin f.process_types
         THEN FALSE
    ELSE IF f.show_only_favorites /\ port.port \notin favs THEN FALSE
    ELSE IF f.show_only_watched /\
            ~(\E i \in DOMAIN watch : watch[i].port = port.port) THEN FALSE
    ELSE TRUE

\* PortFilter::matches: the criteria in order, each returning false early.
matches(f, port, favs, watch) ==
    IF f.search_text # <<>> /\ ~matches_search(port, f.search_text) THEN FALSE
    ELSE IF f.min_port # None /\ port.port < f.min_port[1] THEN FALSE
    ELSE IF f.max_port # None /\ port.port > f.max_port[1] THEN FALSE
    ELSE IF f.process_types # {} /\ process_type(port) \notin f.process_types
         THEN FALSE
    ELSE IF f.show_only_favorites /\ port.port \notin favs THEN FALSE
    ELSE IF f.show_only_watched /\
            ~(\E i \in DOMAIN watch : watch[i].port = port.port) THEN FALSE
    ELSE TRUE

reset_keeps_ranges(f) ==
    [default_filter EXCEPT !.min_port = f.min_port, !.max_port = f.max_port]

\* PortFilter::reset: *self = Self::default()
reset(f) == default_filter

\* The mutators: each returns the receiver with the named fields replaced.
with_search(f, text) == [f EXCEPT !.search_text = text]

with_port_range(f, min, max) == [f EXCEPT !.min_port = min, !.max_port = max]

with_process_types(f, types) == [f EXCEPT !.process_types = types]

with_favorites_only(f, enabled) == [f EXCEPT !.show_only_favorites = enabled]

with_watched_only(f, enabled) == [f EXCEPT !.show_only_watched = enabled]

filter_ports_unfiltered(table, f, favs, watch) == table

\* filter_ports: ports.iter().filter(|p| filter.matches(..)).cloned().collect()
filter_ports(table, f, favs, watch) ==
    SelectSeq(table, LAMBDA p : matches(f, p, favs, watch))

-----------------------------------------------------------------------------
(* A client of PortFilter: builds filters by chaining and applies them *)

SearchTexts == {<<>>, <<"N">>, <<"8">>}

MinPorts == {None, Some(80)}

MaxPorts == {None, Some(3)}

PortInfos == {PortInfoOf(pid) : pid \in Pids}

Tables == Scans(Pids) \cup {<<>>}

FavoriteSets == {{}, {80}}

WatchedLists == {<<>>, <<WatchedPort(3)>>, <<WatchedPort(80), WatchedPort(3)>>}

\* The record of a call on the filter in hand.
Called(name, out) == [name |-> name, was_active |-> is_active(filter), out |-> out]

FilterStep(name, f) ==
    /\ filter' = f
    /\ fcall' = Called(name, <<>>)
    /\ UNCHANGED <<progVars, f_ports, f_favorites, f_watched, key, cliVars>>

WithSearch == \E text \in SearchTexts : FilterStep("with_search", with_search(filter, text))

WithPortRange ==
    \E min \in MinPorts, max \in MaxPorts :
        FilterStep("with_port_range", with_port_range(filter, min, max))

WithProcessTypes ==
    \E types \in SUBSET ProcessTypeALL :
        FilterStep("with_process_types", with_process_types(filter, types))

WithFavoritesOnly ==
    \E enabled \in BOOLEAN :
        FilterStep("with_favorites_only", with_favorites_only(filter, enabled))

WithWatchedOnly ==
    \E enabled \in BOOLEAN :
        FilterStep("with_watched_only", with_watched_only(filter, enabled))

Reset == FilterStep("reset", reset(filter))

FilterPorts ==
    /\ fcall' = Called("filter_ports",
                       filter_ports(f_ports, filter, f_favorites, f_watched))
    /\ UNCHANGED <<progVars, filter, f_ports, f_favorites, f_watched, key,
                   cliVars>>

InitFilter ==
    /\ platform = "unix"
    /\ world = Pids
    /\ alive = {}
    /\ pc = "idle"
    /\ caller = "api"
    /\ session = "none"
    /\ kg_pid = 0
    /\ kg_stage1 = "none"
    /\ kg_result = NoResult
    /\ kg_log = <<>>
    /\ kg_existed = FALSE
    /\ kg_killed = FALSE
    /\ kg_present = FALSE
    /\ lastKill = NoKill
    /\ ports = <<>>
    /\ favorites = {}
    /\ watched = {}
    /\ selected = 0
    /\ search_query = <<>>
    /\ searching = FALSE
    /\ status_message = NoStatus
    /\ last_refresh = 0
    /\ now = 0
    /\ cfgFav = {}
    /\ cfgWatched = {}
    /\ ks = NoKs
    /\ op = NoOp
    /\ filter = new_filter
    /\ f_ports \in Tables
    /\ f_favorites \in FavoriteSets
    /\ f_watched \in WatchedLists
    /\ fcall = NoCall
    /\ key = NoKey
    /\ wstore = {}
    /\ cli = NoCli

NextFilter ==
    \/ WithSearch
    \/ WithPortRange
    \/ WithProcessTypes
    \/ WithFavoritesOnly
    \/ WithWatchedOnly
    \/ Reset
    \/ FilterPorts

SpecFilter == InitFilter /\ [][NextFilter]_vars

-----------------------------------------------------------------------------
(* Properties of PortFilter *)

\* C15: the default PortFilter matches every PortInfo, whatever the favorites
\* set and the watched list; applied to a table it returns the whole table.
C15_DefaultMatchesAll ==
    /\ \A p \in PortInfos, favs \in SUBSET PortNums, watch \in WatchedLists :
           matches(new_filter, p, favs, watch)
    /\ (filter = new_filter /\ fcall.name = "filter_ports") => fcall.out = f_ports

\* C15 witness: the default filter was applied to a table of three records
\* with no favorites and nothing watched, and returned all three.
C15_Witness ==
    /\ filter = new_filter
    /\ fcall.name = "filter_ports"
    /\ Len(f_ports) = 3
    /\ f_favorites = {}
    /\ f_watched = <<>>
    /\ fcall.out = f_ports

\* C16: after reset(), whatever chain of mutators built the filter, the
\* filter equals the default filter (no search text, no port bound, every
\* known process type, both flags off) and is_active() is false.
C16_ResetGivesDefault ==
    fcall.name = "reset" =>
        /\ filter = [search_text |-> <<>>, min_port |-> None, max_port |-> None,
                     process_types |-> ProcessTypeALL,
                     show_only_favorites |-> FALSE, show_only_watched |-> FALSE]
        /\ filter = new_filter
        /\ ~is_active(filter)

\* C16 witness: reset() was called on a filter that was active.
C16_Witness ==
    /\ fcall.name = "reset"
    /\ fcall.was_active
    /\ filter = new_filter

\* The indices of the records of table that the filter in hand accepts.
MatchingIndices(table) ==
    {i \in DOMAIN table : matches(filter, table[i], f_favorites, f_watched)}

\* out is table restricted to the index set I, in the table's order.
IsRestriction(out, table, I) ==
    /\ Len(out) = Cardinality(I)
    /\ \E idx \in [DOMAIN out -> I] :
          /\ \A j, k \in DOMAIN out : j < k => idx[j] < idx[k]
          /\ \A k \in DOMAIN out : out[k] = table[idx[k]]

\* C17: filter_ports returns exactly the subsequence of the table made of
\* the records the filter matches: none that fails, none that matches left
\* out, in the table's order; and the table is left as it was.
C17_FilterPortsIsSubsequence ==
    /\ [](fcall.name = "filter_ports" =>
             IsRestriction(fcall.out, f_ports, MatchingIndices(f_ports)))
    /\ [][f_ports' = f_ports]_vars

\* C17 witness: of a table of three records, filter_ports returned the first
\* and the third.
C17_Witness ==
    /\ fcall.name = "filter_ports"
    /\ Len(f_ports) = 3
    /\ fcall.out = <<f_ports[1], f_ports[3]>>

\* C18: matches is true iff: the search text is empty or the port matches it;
\* min_port is unset or port >= min_port; max_port is unset or port <=
\* max_port; process_types is empty or contains the port's process type;
\* show_only_favorites is false or the port number is a favorite;
\* show_only_watched is false or some watched entry has the port number.
C18_MatchesIffAllCriteria ==
    \A p \in PortInfos :
        matches(filter, p, f_favorites, f_watched) <=>
            /\ (filter.search_text = <<>> \/ matches_search(p, filter.search_text))
            /\ (filter.min_port = None \/ p.port >= filter.min_port[1])
            /\ (filter.max_port = None \/ p.port <= filter.max_port[1])
            /\ (filter.process_types = {} \/ process_type(p) \in filter.process_types)
            /\ (~filter.show_only_favorites \/ p.port \in f_favorites)
            /\ (~filter.show_only_watched \/
                   p.port \in {f_watched[i].port : i \in DOMAIN f_watched})

\* C18 witness: a filter whose min_port is 80 was applied and returned a
\* record of port 80 (the bound is inclusive).
C18_Witness ==
    /\ filter.min_port = Some(80)
    /\ fcall.name = "filter_ports"
    /\ fcall.out # <<>>
    /\ fcall.out[1].port = 80

\* C19: is_active() is true iff the filter differs from the default filter
\* in some field (search text non-empty, a port bound set, process_types not
\* the full set of known types, show_only_favorites or show_only_watched);
\* and every filter with is_active() false accepts every port.
C19_ActiveIffNotDefault ==
    /\ is_active(filter) <=> filter # new_filter
    /\ is_active(filter) <=>
          \/ filter.search_text # <<>>
          \/ filter.min_port # None
          \/ filter.max_port # None
          \/ filter.process_types # ProcessTypeALL
          \/ filter.show_only_favorites
          \/ filter.show_only_watched
    /\ ~is_active(filter) =>
          \A p \in PortInfos : matches(filter, p, f_favorites, f_watched)

\* C19 witness: a filter that deviates from the default only by an empty
\* process_types set is active.
C19_Witness ==
    /\ fcall.name = "with_process_types"
    /\ filter = [new_filter EXCEPT !.process_types = {}]
    /\ is_active(filter)

-----------------------------------------------------------------------------
(* The interactive session with the favorite and watch toggles *)

InitToggles == InitSession({1, 3})

NextToggles ==
    \/ KeyToggleFavorite
    \/ KeyToggleWatch
    \/ CliStoreCommand
    \/ KeyRefresh
    \/ KeyNext
    \/ KeyQuit
    \/ KeyNothing
    \/ AutoRefresh

SpecToggles == InitToggles /\ [][NextToggles]_vars

\* A step in which run_app called the toggle h.
ToggleStep(h) == Polling /\ pc' # pc /\ op'.name = h

\* C20: toggle_favorite (resp. toggle_watch) with a selected record of port
\* p issues remove to the config store iff p is in the favorites (resp.
\* watched) snapshot and add otherwise; on success it flips the membership of
\* exactly p in that snapshot and leaves the other snapshot, ports, selected
\* and the search state unchanged; with no selected record it issues no
\* store call and changes nothing.
C20_ToggleFlipsSnapshot ==
    [][/\ ToggleStep("toggle_favorite") =>
            IF has_selected_port
            THEN LET p == selected_port.port
                 IN  /\ (p \in favorites) => op'.call = <<"remove_favorite", p>>
                     /\ (p \notin favorites) => op'.call = <<"add_favorite", p>>
                     /\ ~op'.failed =>
                           /\ (p \in favorites') # (p \in favorites)
                           /\ favorites' \ {p} = favorites \ {p}
                           /\ (p \in cfgFav') = (p \in favorites')
                           /\ cfgFav' \ {p} = cfgFav \ {p}
                           /\ UNCHANGED <<watched, cfgWatched, ports, selected,
                                          search_query, searching>>
            ELSE /\ op'.call = <<>>
                 /\ UNCHANGED <<appVars, storeVars, session>>
       /\ ToggleStep("toggle_watch") =>
            IF has_selected_port
            THEN LET p == selected_port.port
                 IN  /\ (p \in watched) => op'.call = <<"remove_watched_port", p>>
                     /\ (p \notin watched) => op'.call = <<"add_watched_port", p>>
                     /\ ~op'.failed =>
                           /\ (p \in watched') # (p \in watched)
                           /\ watched' \ {p} = watched \ {p}
                           /\ (p \in cfgWatched') = (p \in watched')
                           /\ cfgWatched' \ {p} = cfgWatched \ {p}
                           /\ UNCHANGED <<favorites, cfgFav, ports, selected,
                                          search_query, searching>>
            ELSE /\ op'.call = <<>>
                 /\ UNCHANGED <<appVars, storeVars, session>>]_vars

\* C20 witness: toggle_favorite found port 80 in the snapshot, issued the
\* remove for it, and took it out of the snapshot, leaving watched as it was.
C20_Witness ==
    /\ session = "running"
    /\ op.name = "toggle_favorite"
    /\ op.call = <<"remove_favorite", 80>>
    /\ ~op.failed
    /\ 80 \notin favorites
    /\ 80 \notin cfgFav
    /\ watched = {3}

-----------------------------------------------------------------------------
(* Properties of search mode *)

\* A step in which run_app called the session operation h.
OpStep(h) == Polling /\ pc' # pc /\ op'.name = h

\* C21: end_search changes only the searching flag, to false: search_query,
\* selected and the filtered view (and every other session field) are the
\* same before and after, so the text filter stays in force; start_search
\* sets searching to true and search_query to empty.
C21_EndSearchKeepsQuery ==
    [][/\ OpStep("end_search") =>
            /\ searching /\ ~searching'
            /\ UNCHANGED <<search_query, selected, ports, favorites, watched,
                           status_message, last_refresh, storeVars, session>>
            /\ filtered(ports', search_query') = filtered_ports
       /\ OpStep("start_search") =>
            /\ searching'
            /\ search_query' = <<>>]_vars

\* C21 witness: entry mode was left with a query that still hides a record
\* of the table.
C21_Witness ==
    /\ op.name = "end_search"
    /\ ~searching
    /\ search_query # <<>>
    /\ filtered_ports # <<>>
    /\ Len(filtered_ports) < Len(ports)

\* C24: search_input(c) appends exactly c to the end of search_query and
\* sets selected to 0; search_backspace removes exactly the last character
\* (an empty query stays empty) and sets selected to 0; neither changes
\* ports, favorites, watched or the searching flag.
C24_SearchEdits ==
    [][/\ OpStep("search_input") =>
            /\ Len(search_query') = Len(search_query) + 1
            /\ SubSeq(search_query', 1, Len(search_query)) = search_query
            /\ search_query'[Len(search_query')] = key'
            /\ selected' = 0
            /\ UNCHANGED <<ports, favorites, watched, searching>>
       /\ OpStep("search_backspace") =>
            /\ IF search_query = <<>> THEN search_query' = <<>>
               ELSE search_query = Append(search_query', search_query[Len(search_query)])
            /\ selected' = 0
            /\ UNCHANGED <<ports, favorites, watched, searching>>]_vars

\* C24 witness: a backspace has turned a two-character query into its first
\* character.
C24_Witness ==
    /\ op.name = "search_backspace"
    /\ key = "Backspace"
    /\ search_query = <<"8">>
    /\ selected = 0
    /\ searching

\* C27 as claimed: while searching is true, a press of a character key never
\* triggers kill_selected, refresh, a toggle, navigation or quit: every
\* character key is appended to search_query.
C27_Claim ==
    [][(Polling /\ searching /\ pc' # pc /\ key' \in CharKeys) =>
          /\ op'.name = "search_input"
          /\ search_query' = Append(search_query, key')]_vars

-----------------------------------------------------------------------------
(* The non-interactive `watch` commands (commands/watch.rs) *)

\* Whether the watched list holds an entry for the port.
is_watched(stored, port) == \E w \in stored : w.port = port

\* ConfigStore::update_watched_port: the entry's notification flags replaced.
update_watched_port(stored, port, on_start, on_stop) ==
    {IF w.port = port
     THEN [w EXCEPT !.notify_on_start = on_start, !.notify_on_stop = on_stop]
     ELSE w : w \in stored}

\* The command exits with the given status.
CliExits(status) == [cli EXCEPT !.at = "exited", !.exit = status]

\* watch add: ConfigStore::new()?, get_watched_ports().await?, and the
\* "already being watched" return.
WatchAddStart ==
    /\ pc = "idle"
    /\ cli.at = "idle"
    /\ \E port \in PortNums, on_start \in BOOLEAN, on_stop \in BOOLEAN,
          loadFails \in BOOLEAN :
         LET c == [NoCli EXCEPT !.cmd = "watch_add", !.port = port,
                                !.on_start = on_start, !.on_stop = on_stop,
                                !.before = wstore]
         IN  cli' = IF loadFails THEN [c EXCEPT !.at = "exited", !.exit = "Err"]
                    ELSE IF is_watched(wstore, port)
                         THEN [c EXCEPT !.at = "exited", !.exit = "Ok"]
                    ELSE [c EXCEPT !.at = "add"]
    /\ UNCHANGED <<progVars, filterVars, key, wstore>>

\* let wp = store.add_watched_port(port).await?; then the flags decide
\* whether a second call follows.
WatchAddInsert ==
    /\ cli.at = "add"
    /\ \E storeFails \in BOOLEAN :
         /\ wstore' = IF storeFails THEN wstore
                       ELSE wstore \cup {WatchedPort(cli.port)}
         /\ cli' = IF storeFails THEN CliExits("Err")
                    ELSE IF ~cli.on_start \/ ~cli.on_stop
                         THEN [cli EXCEPT !.at = "update"]
                    ELSE CliExits("Ok")
    /\ UNCHANGED <<progVars, filterVars, key>>

\* store.update_watched_port(port, on_start, on_stop).await?
WatchAddUpdate ==
    /\ cli.at = "update"
    /\ \E storeFails \in BOOLEAN :
         /\ wstore' = IF storeFails THEN wstore
                       ELSE update_watched_port(wstore, cli.port, cli.on_start,
                                                cli.on_stop)
         /\ cli' = CliExits(IF storeFails THEN "Err" ELSE "Ok")
    /\ UNCHANGED <<progVars, filterVars, key>>

\* watch remove: one remove_watched_port call.
WatchRemove ==
    /\ pc = "idle"
    /\ cli.at = "idle"
    /\ \E port \in PortNums, storeFails \in BOOLEAN :
         LET c == [NoCli EXCEPT !.cmd = "watch_remove", !.port = port,
                                !.before = wstore, !.at = "exited"]
         IN  /\ wstore' = IF storeFails THEN wstore
                           ELSE {w \in wstore : w.port # port}
             /\ cli' = [c EXCEPT !.exit = IF storeFails THEN "Err" ELSE "Ok"]
    /\ UNCHANGED <<progVars, filterVars, key>>

\* The process of the command has ended; another command can be run.
CliDone ==
    /\ cli.at = "exited"
    /\ cli' = NoCli
    /\ lastKill' = NoKill
    /\ kg_pid' = 0
    /\ kg_stage1' = "none"
    /\ kg_result' = NoResult
    /\ kg_log' = <<>>
    /\ kg_existed' = FALSE
    /\ kg_killed' = FALSE
    /\ kg_present' = FALSE
    /\ UNCHANGED <<platform, world, alive, pc, caller, session, appVars, now,
                   storeVars, ks, op, filterVars, key, wstore>>

-----------------------------------------------------------------------------
(* The non-interactive `kill` command (commands/kill.rs) *)

\* Ports a command can be given: those in use, and one nobody listens on.
CliPorts == PortNums \cup {9}

\* The indices of the scanned records whose port is the one asked for.
IndicesWithPort(table, port) == {i \in DOMAIN table : table[i].port = port}

find_last(table, port) ==
    LET I == IndicesWithPort(table, port)
    IN  IF I = {} THEN <<>>
        ELSE <<table[CHOOSE i \in I : \A j \in I : j <= i]>>

\* ports.iter().find(|p| p.port == port): the first such record, if any.
find(table, port) ==
    LET I == IndicesWithPort(table, port)
    IN  IF I = {} THEN <<>>
        ELSE <<table[CHOOSE i \in I : \A j \in I : i <= j]>>

\* What PortScanner::scan can return: the windows variant always fails, the
\* unix variants fail (linux) or return the table (macOS).
ScanResults(a) ==
    {<<"Err">>} \cup
    (IF platform = "unix" THEN {<<"Ok", t>> : t \in Scans(a)} ELSE {})

\* The exit status for the result of the kill call: Err(e) => bail!.
exit_status(r) == IF IsErr(r) THEN "Err" ELSE "Ok"

\* run(port, force): the scan and the lookup of the port.
CliKillScan ==
    /\ pc = "idle"
    /\ cli.at = "idle"
    /\ \E port \in CliPorts, force \in BOOLEAN :
         \E sr \in ScanResults(alive) :
            LET c == [NoCli EXCEPT !.cmd = "kill", !.port = port, !.force = force]
            IN  cli' = IF sr[1] = "Err"
                       THEN [c EXCEPT !.at = "exited", !.exit = "Err"]
                       ELSE IF find(sr[2], port) = <<>>
                       THEN [c EXCEPT !.scanned = TRUE, !.table = sr[2],
                                      !.at = "exited", !.exit = "Ok"]
                       ELSE [c EXCEPT !.scanned = TRUE, !.table = sr[2],
                                      !.at = "found"]
    /\ UNCHANGED <<progVars, filterVars, key, wstore>>

\* The kill call on the pid found: kill(pid, true) for --force, otherwise
\* kill_gracefully(pid).
CliKillCall ==
    /\ pc = "idle"
    /\ cli.at = "found"
    /\ LET pid == find(cli.table, cli.port)[1].pid
       IN  IF cli.force
           THEN \E o \in Outcomes(pid) :
                  LET e == KillEvent(pid, TRUE, o)
                  IN  /\ lastKill' = e
                      /\ alive' = AliveAfter(pid, e.prim, o)
                      /\ cli' = CliExits(exit_status(e.result))
                      /\ UNCHANGED <<pc, caller, kgVars>>
           ELSE /\ alive' = alive
                /\ kill_gracefully_enter(pid, "cli")
                /\ cli' = [cli EXCEPT !.at = "killing"]
                /\ UNCHANGED lastKill
    /\ UNCHANGED <<platform, world, session, appVars, now, storeVars, ks, op,
                   filterVars, key, wstore>>

\* kill_gracefully has returned into run: the match on its result.
CliKillReturn ==
    /\ pc = "kg_ret"
    /\ caller = "cli"
    /\ cli.at = "killing"
    /\ pc' = "idle"
    /\ cli' = CliExits(exit_status(kg_result))
    /\ UNCHANGED <<platform, world, alive, caller, session, kgVars, lastKill,
                   appVars, now, storeVars, ks, op, filterVars, key, wstore>>

InitCli == InitKiller

NextCli ==
    \/ WatchAddStart
    \/ WatchAddInsert
    \/ WatchAddUpdate
    \/ WatchRemove
    \/ CliKillScan
    \/ CliKillCall
    \/ KgStage1
    \/ KgSleep
    \/ TermExit
    \/ KgStage2
    \/ CliKillReturn
    \/ CliDone
    \/ EnvSpawn
    \/ EnvExit

SpecCli == InitCli /\ [][NextCli]_vars

-----------------------------------------------------------------------------
(* Properties of the non-interactive commands *)

\* C22 as claimed: no non-interactive command is partially applied: when
\* `watch add` fails, the config store is exactly as it was before the
\* command (the port is not left watched with the default flags).
C22_Claim ==
    (cli.cmd = "watch_add" /\ cli.at = "exited" /\ cli.exit = "Err") =>
        wstore = cli.before

-----------------------------------------------------------------------------
(* Further properties of kill_gracefully, the toggles and kill_selected *)

\* C23: within kill_gracefully the grace-period wait happens iff stage 1
\* returned true; when it happens it lies strictly between the graceful
\* request and the unconditional one; when stage 1 returned false the
\* unconditional request follows with no wait.
C23_GraceWait ==
    KgReturned =>
        /\ (SleepsOf(kg_log) # {}) <=> (kg_stage1 = "true")
        /\ (kg_stage1 = "true") <=> (kg_log[1].result = Ok(TRUE))
        /\ (kg_stage1 = "true") =>
              /\ Len(kg_log) = 3
              /\ kg_log[1].ev = "kill" /\ ~kg_log[1].force
              /\ kg_log[2].ev = "sleep"
              /\ kg_log[3].ev = "kill" /\ kg_log[3].force
        /\ (kg_stage1 = "false") =>
              /\ kg_log[1].result = Ok(FALSE)
              /\ Len(kg_log) = 2
              /\ kg_log[2].ev = "kill" /\ kg_log[2].force

\* C23 witness: a call whose stage 1 returned true has waited and then
\* issued the unconditional request.
C23_Witness ==
    /\ KgReturned
    /\ kg_stage1 = "true"
    /\ Len(kg_log) = 3
    /\ kg_log[2].ev = "sleep"
    /\ kg_log[3].force

\* C25: when the config-store call inside toggle_favorite or toggle_watch
\* fails, the operation aborts with the favorites and watched snapshots and
\* the status message unchanged (and the store unchanged): the snapshot
\* never records a membership change the store rejected.
C25_FailedToggleChangesNothing ==
    [][((ToggleStep("toggle_favorite") \/ ToggleStep("toggle_watch"))
            /\ op'.failed) =>
          /\ op'.call # <<>>
          /\ UNCHANGED <<favorites, watched, status_message, cfgFav, cfgWatched,
                         ports, selected>>]_vars

\* C25 witness: toggle_watch asked the store to remove port 3, the store
\* failed, and port 3 is still in the watched snapshot.
C25_Witness ==
    /\ op.name = "toggle_watch"
    /\ op.failed
    /\ op.call = <<"remove_watched_port", 3>>
    /\ 3 \in watched
    /\ 3 \in cfgWatched

\* C28 as claimed: after kill_selected completes with kill_gracefully having
\* returned Ok(true), the status message is the kill outcome text ("Killed
\* <name> on port <port>"), and it is what get_status returns right then.
C28_Claim ==
    (session = "running" /\ pc = "auto" /\ op.name = "kill_selected"
        /\ kg_result = Ok(TRUE)) =>
        /\ status_message.set
        /\ status_message.msg = Msg("Killed", ks.name, ks.port, NoErr)
        /\ get_status = <<status_message.msg>>

====
